---- MODULE Spec2Model ----
(***************************************************************************)
(* A model of the three combine_files programs of folder-to-single-file:   *)
(*   "root" = src/combine_files.py                                         *)
(*   "lib"  = src/lib/combine_files.py  (FileProcessor / FileCombiner)     *)
(*   "src"  = src/src/combine_files.py                                     *)
(* A file name is a sequence of one-character strings, a path the sequence *)
(* of the names below the input directory.  A file's bytes are abbreviated *)
(* to `data`, the bytes that decide how it is sniffed and decoded; `size`  *)
(* is what os.path.getsize answers.                                        *)
(***************************************************************************)
EXTENDS Integers, Sequences, FiniteSets, TLC

\* ------------------------------------------------------------------ bounds
\* At most this many files exist below the input directory.
MaxFiles == 2

\* ------------------------------------------------------------- characters
\* ord(c) of the characters the names use (ASCII).
Ord(c) ==
  CASE c = " " -> 32 [] c = "#" -> 35 [] c = "." -> 46
    [] c = "B" -> 66 [] c = "C" -> 67 [] c = "D" -> 68 [] c = "S" -> 83
    [] c = "_" -> 95
    [] c = "a" -> 97 [] c = "b" -> 98 [] c = "c" -> 99 [] c = "d" -> 100
    [] c = "e" -> 101 [] c = "f" -> 102 [] c = "g" -> 103 [] c = "h" -> 104
    [] c = "i" -> 105 [] c = "l" -> 108 [] c = "m" -> 109 [] c = "n" -> 110
    [] c = "o" -> 111 [] c = "p" -> 112 [] c = "r" -> 114 [] c = "s" -> 115
    [] c = "t" -> 116 [] c = "u" -> 117 [] c = "v" -> 118 [] c = "w" -> 119
    [] c = "x" -> 120 [] c = "y" -> 121
    [] OTHER -> 63

\* str.lower() on one character.
LowerChar(c) ==
  CASE c = "B" -> "b" [] c = "C" -> "c" [] c = "D" -> "d" [] c = "S" -> "s"
    [] OTHER -> c

\* str.lower()
Lower(s) == [i \in 1..Len(s) |-> LowerChar(s[i])]

\* Python's  p in s  on strings: p occurs in s as a substring.
Contains(p, s) ==
  \E i \in 0..(Len(s) - Len(p)) : SubSeq(s, i + 1, i + Len(p)) = p

\* s.startswith(p)
StartsWith(s, p) == Len(p) <= Len(s) /\ SubSeq(s, 1, Len(p)) = p

\* s.endswith(p)
EndsWith(s, p) == Len(p) <= Len(s) /\ SubSeq(s, Len(s) - Len(p) + 1, Len(s)) = p

\* Python's  a < b  on strings: lexicographic by code point.
RECURSIVE StrLess(_, _)
StrLess(a, b) ==
  IF b = <<>> THEN FALSE
  ELSE IF a = <<>> THEN TRUE
  ELSE IF Ord(Head(a)) # Ord(Head(b)) THEN Ord(Head(a)) < Ord(Head(b))
  ELSE StrLess(Tail(a), Tail(b))

\* The least string of a non-empty set.
MinStr(S) == CHOOSE a \in S : \A b \in S \ {a} : StrLess(a, b)

\* sorted(S) for a set of distinct strings.
RECURSIVE Sorted(_)
Sorted(S) ==
  IF S = {} THEN <<>> ELSE <<MinStr(S)>> \o Sorted(S \ {MinStr(S)})

\* A sequence back to front.
RECURSIVE Reversed(_)
Reversed(q) == IF q = <<>> THEN <<>> ELSE Reversed(Tail(q)) \o <<Head(q)>>

\* str.strip() (spaces only; the lines hold no other white space).
RECURSIVE LStrip(_)
LStrip(s) == IF s # <<>> /\ Head(s) = " " THEN LStrip(Tail(s)) ELSE s

Strip(s) == Reversed(LStrip(Reversed(LStrip(s))))

\* The index of the last "." of a name, 0 when it has none.
LastDot(n) ==
  IF \E i \in 1..Len(n) : n[i] = "."
  THEN CHOOSE i \in 1..Len(n) : n[i] = "." /\ \A j \in (i + 1)..Len(n) : n[j] # "."
  ELSE 0

\* Path(file_path).suffix.lower(): the last "." and what follows it, unless
\* that "." starts or ends the name.
SuffixLower(n) ==
  IF LastDot(n) > 1 /\ LastDot(n) < Len(n)
  THEN Lower(SubSeq(n, LastDot(n), Len(n)))
  ELSE <<>>

\* ------------------------------------------------------------ file system
\* Names the modelled trees are built from.
\* ------------------------------------------------------ program tables
\* is_binary's code_extensions (src/combine_files.py, src/lib/combine_files.py).
code_extensions ==
  { <<".", "s", "w", "i", "f", "t">>, <<".", "h">>, <<".", "m">>,
    <<".", "c">>, <<".", "c", "p", "p">>, <<".", "h", "p", "p">>,
    <<".", "j", "a", "v", "a">>, <<".", "k", "t">>, <<".", "p", "y">>,
    <<".", "s", "h">>, <<".", "b", "a", "s", "h">>, <<".", "j", "s">>,
    <<".", "j", "s", "x">>, <<".", "t", "s">>, <<".", "t", "s", "x">>,
    <<".", "h", "t", "m", "l">>, <<".", "c", "s", "s">>, <<".", "s", "c", "s", "s">>,
    <<".", "s", "a", "s", "s">>, <<".", "m", "d">>, <<".", "t", "x", "t">>,
    <<".", "j", "s", "o", "n">>, <<".", "x", "m", "l">>, <<".", "y", "a", "m", "l">>,
    <<".", "y", "m", "l">>, <<".", "p", "r", "o", "p", "e", "r", "t", "i", "e", "s">>, <<".", "c", "o", "n", "f", "i", "g">>,
    <<".", "p", "l", "i", "s", "t">> }

\* is_binary's text_extensions (src/src/combine_files.py).
text_extensions ==
  { <<".", "t", "x", "t">>, <<".", "m", "d">>, <<".", "s", "w", "i", "f", "t">>,
    <<".", "p", "y">>, <<".", "j", "s">>, <<".", "j", "s", "o", "n">>,
    <<".", "x", "m", "l">>, <<".", "y", "a", "m", "l">>, <<".", "y", "m", "l">>,
    <<".", "s", "h">>, <<".", "b", "a", "s", "h">>, <<".", "z", "s", "h">>,
    <<".", "h", "t", "m", "l">>, <<".", "c", "s", "s">>, <<".", "h">>,
    <<".", "m">>, <<".", "c">>, <<".", "c", "p", "p">>,
    <<".", "j", "a", "v", "a">>, <<".", "k", "t">>, <<".", "r", "s">>,
    <<".", "g", "o">>, <<".", "r", "b">>, <<".", "p", "h", "p">>,
    <<".", "p", "l">>, <<".", "c", "o", "n", "f">>, <<".", "c", "f", "g">>,
    <<".", "i", "n", "i">> }

\* combine_files' force_text_extensions (src/combine_files.py).
force_text_extensions ==
  { <<".", "s", "w", "i", "f", "t">>, <<".", "m", "d">>, <<".", "t", "x", "t">>,
    <<".", "j", "s", "o", "n">>, <<".", "y", "a", "m", "l">>, <<".", "y", "m", "l">> }

\* combine_files' default exclude_patterns (src/combine_files.py).
RootDefaultPatterns ==
  << <<".", "g", "i", "t">>, <<"_", "_", "p", "y", "c", "a", "c", "h", "e", "_", "_">>, <<".", "p", "y", "c">>,
     <<".", "c", "l", "a", "s", "s">>, <<".", "o">>, <<".", "D", "S", "_", "S", "t", "o", "r", "e">> >>

\* The exclude_patterns of main and of combine_files (src/src/combine_files.py).
SrcDefaultPatterns ==
  << <<".", "g", "i", "t">>, <<".", "g", "i", "t", "i", "g", "n", "o", "r", "e">>, <<".", "D", "S", "_", "S", "t", "o", "r", "e">>,
     <<"_", "_", "p", "y", "c", "a", "c", "h", "e", "_", "_">>, <<"n", "o", "d", "e", "_", "m", "o", "d", "u", "l", "e", "s">>, <<"v", "e", "n", "v">>,
     <<"e", "n", "v">>, <<".", "e", "n", "v">>, <<"c", "o", "m", "b", "i", "n", "e", "d", "_", "f", "i", "l", "e", "s", ".", "t", "x", "t">> >>

DotGit == <<".", "g", "i", "t">>
Sub == <<"s", "u", "b">>
APy == <<"a", ".", "p", "y">>
BTxt == <<"B", ".", "t", "x", "t">>
CFile == <<"c">>
DSwift == <<"d", ".", "s", "w", "i", "f", "t">>
OutTxt == <<"o", "u", "t", ".", "t", "x", "t">>
PatB == <<"B">>
LineComment == <<"#", " ", "s", "u", "b">>
LineBlank == <<" ", " ">>
LineGit == <<" ", ".", "g", "i", "t", " ">>
LineIndentedHash == <<" ", "#", "c">>

MiB == 1024 * 1024

\* What a file can be: size as os.path.getsize reports it, data the bytes that
\* decide sniffing and decoding (104 = "h", 0 = NUL, 255 = a byte no UTF-8 text
\* holds), st whether it can be opened ("ok"), cannot ("noperm": PermissionError,
\* an IOError) or is a dangling symbolic link ("dangling": os.stat fails).
Attrs ==
  { [size |-> 0,       data |-> <<>>,    st |-> "ok"],
    [size |-> 1,       data |-> <<0>>,   st |-> "ok"],
    [size |-> 1,       data |-> <<255>>, st |-> "ok"],
    [size |-> MiB,     data |-> <<104>>, st |-> "ok"],
    [size |-> MiB + 1, data |-> <<104>>, st |-> "ok"],
    [size |-> 1,       data |-> <<104>>, st |-> "noperm"],
    [size |-> 0,       data |-> <<>>,    st |-> "dangling"] }

\* Where a file can be: <<directory path, name>>.
Slots ==
  { <<<<>>, APy>>, <<<<>>, BTxt>>,
    <<<<DotGit>>, CFile>>, <<<<Sub>>, DSwift>>, <<<<Sub, DotGit>>, CFile>> }

\* The trees: at most MaxFiles files, each directory an ancestor of a file.
FileSystems ==
  UNION { [S -> Attrs] : S \in { T \in SUBSET Slots : Cardinality(T) <= MaxFiles } }

\* The output file named on the command line when it lies in the input directory.
OutSlot == <<<<>>, OutTxt>>

Range(q) == { q[i] : i \in 1..Len(q) }

\* --exclude values, exclude_patterns arguments and --config files.
CustomExclude == << Sub, PatB >>

ConfigLines == << LineComment, LineBlank, LineGit, LineIndentedHash >>

\* ------------------------------------------------------------------ state
VARIABLES
  variant,           \* which program runs: "root", "lib" or "src"
  argv,              \* the call: has_exclude, exclude, has_config, max_size_mb, no_tree, quiet
  fs,                \* the input tree: slot -> attributes
  scanRev,           \* os.scandir lists names in descending (TRUE) or ascending order
  outIn,             \* the output path lies in the input directory (as out.txt)
  outExists,         \* the output file exists
  outWritable,       \* the output file can be created and opened for writing
  disk,              \* what the closed output file holds
  run,               \* the number of the run, also the clock of the tree's time stamp
  prevDoc,           \* what the previous run left in the output file
  pc,                \* where the run is
  exclude_patterns,  \* the exclusion set of the run
  total_files,       \* the pre-scan's count
  processed_files,   \* the walk's counter
  pending,           \* directories os.walk has still to yield, next first
  cur,               \* the directory whose files are being processed
  todo,              \* sorted(files) of cur still to process
  outfile,           \* what the run has written to the output file
  notices,           \* what was printed or logged: skip and error notices
  visited,           \* directories the main walk yielded
  classified,        \* files whose extension or first bytes were examined
  opened,            \* files opened for reading their content
  result,            \* "running", "None" (returned), "True", "False", "raised"
  failure            \* what ended the run early: "", "output", "zerodiv", "getsize"

vars ==
  << variant, argv, fs, scanRev, outIn, outExists, outWritable, disk, run, prevDoc,
     pc, exclude_patterns, total_files, processed_files, pending, cur, todo,
     outfile, notices, visited, classified, opened, result, failure >>

env == << variant, argv, fs, scanRev, outIn, outWritable >>

\* ------------------------------------------------- the tree as the run sees it
\* io.BufferedWriter keeps what is written in memory until this many bytes are
\* pending (or the file is closed).
BufferSize == 8192

\* One thing written to the output file: t is "treehdr" (the time-stamped first
\* line of the tree), "tree" (one entry line), "marker" (# Combined Files
\* Content), "header" (### File: path) or "content"; text holds code points,
\* glyphs the prefix of a tree line, bytes the length of a content.
Item(t, path, text, glyphs, bytes) ==
  [t |-> t, path |-> path, text |-> text, glyphs |-> glyphs, bytes |-> bytes]

RECURSIVE SumBytes(_)
SumBytes(doc) == IF doc = <<>> THEN 0 ELSE Head(doc).bytes + SumBytes(Tail(doc))

\* What the output file shows while the run still writes it: nothing until the
\* writer's buffer has overflowed.
OutAttr ==
  IF SumBytes(outfile) >= BufferSize
  THEN [size |-> SumBytes(outfile), data |-> <<104>>, st |-> "ok"]
  ELSE [size |-> 0, data |-> <<>>, st |-> "ok"]

\* The files of the input tree, the output file among them once it exists there.
AllSlots == DOMAIN fs \cup (IF outIn /\ outExists THEN {OutSlot} ELSE {})

FileAt(slot) == IF slot = OutSlot THEN OutAttr ELSE fs[slot]

\* The directories: the input directory <<>> and every ancestor of a file.
DirPaths ==
  {<<>>} \cup UNION { { SubSeq(s[1], 1, k) : k \in 1..Len(s[1]) } : s \in DOMAIN fs }

\* The names of the directories directly in d.
SubdirNames(d) ==
  { p[Len(p)] : p \in { q \in DirPaths : Len(q) = Len(d) + 1 /\ SubSeq(q, 1, Len(d)) = d } }

\* The names of the non-directories directly in d.
FileNames(d) == { s[2] : s \in { x \in AllSlots : x[1] = d } }

\* os.scandir / os.listdir: the order the file system lists names in.
ScanOrder(S) == IF scanRev THEN Reversed(Sorted(S)) ELSE Sorted(S)

\* os.path.join(root, file), below the input directory.
PathStr(path) ==
  IF path = <<>> THEN <<>>
  ELSE LET RECURSIVE Join(_)
           Join(p) == IF p = <<>> THEN <<>> ELSE <<"/">> \o Head(p) \o Join(Tail(p))
       IN  Join(path)

\* ------------------------------------------------------ the program's functions
\* any(pattern in name for pattern in exclude_patterns)
Excluded(name, patterns) == \E p \in patterns : Contains(p, name)

\* max_size_mb * 1024 * 1024
MaxSize(max_size_mb) == max_size_mb * 1024 * 1024

\* A size test that also rejects a file of exactly the limit.
TooLargeOrEqual(size, max_size) == size >= max_size

\* os.path.getsize(file_path) > max_size
TooLarge(size, max_size) == size > max_size

\* b'\0' in chunk, chunk the first 1024 bytes.
HasNul(data) == \E i \in 1..Len(data) : data[i] = 0

\* is_binary of src/combine_files.py and FileProcessor.is_binary.
is_binary(name, attr) ==
  IF SuffixLower(name) \in code_extensions THEN FALSE
  ELSE IF attr.st = "noperm" THEN TRUE
  ELSE HasNul(attr.data)

\* is_binary of src/src/combine_files.py: the extension is looked for at the end
\* of the lower-cased path.
is_binary_src(path, attr) ==
  IF \E ext \in text_extensions : EndsWith(Lower(PathStr(path)), ext) THEN FALSE
  ELSE IF attr.st = "noperm" THEN TRUE
  ELSE HasNul(attr.data)

\* bytes.decode(encoding) / a text-mode read: ok is FALSE for UnicodeDecodeError.
\* The modelled data hold single bytes only: below 128 they are ASCII, above
\* they continue or start nothing and are invalid UTF-8.
Decode(encoding, data) ==
  IF encoding = "latin1" \/ \A i \in 1..Len(data) : data[i] < 128
  THEN [ok |-> TRUE, text |-> data]
  ELSE [ok |-> FALSE, text |-> <<>>]

encodings == << "utf-8", "utf-8-sig", "ascii", "latin1" >>

\* The first encoding of encs that decodes data; U+FFFD for what none decodes.
RECURSIVE DecodeFirst(_, _)
DecodeFirst(encs, data) ==
  IF encs = <<>>
  THEN [i \in 1..Len(data) |-> IF data[i] < 128 THEN data[i] ELSE 65533]
  ELSE IF Decode(Head(encs), data).ok THEN Decode(Head(encs), data).text
  ELSE DecodeFirst(Tail(encs), data)

\* read_file_content: ok is FALSE when the file cannot be opened (IOError raised
\* in src/combine_files.py, None returned in src/lib/combine_files.py).
read_file_content(attr) ==
  IF attr.st = "noperm" THEN [ok |-> FALSE, text |-> <<>>]
  ELSE [ok |-> TRUE, text |-> DecodeFirst(encodings, attr.data)]

Header(path) == Item("header", path, <<>>, <<>>, 0)

Content(path, text, attr) == Item("content", path, text, <<>>, attr.size)

Notice(kind, path) == [kind |-> kind, path |-> path]

\* What one accepted-size file adds: items to the output, notices, and whether
\* its content was opened.
Outcome(items, notes, opens) == [items |-> items, notes |-> notes, opens |-> opens]

SkipBinary(path, quiet) ==
  Outcome(<<>>, IF quiet THEN {} ELSE {Notice("skip_binary", path)}, FALSE)

\* src/combine_files.py, lines 86-98.
WantedRoot(name, attr) ==
  \/ SuffixLower(name) = <<".", "s", "w", "i", "f", "t">>
  \/ (~is_binary(name, attr) /\ SuffixLower(name) \in force_text_extensions)

AcceptRoot(path, attr, quiet) ==
  IF WantedRoot(path[Len(path)], attr)
  THEN IF read_file_content(attr).ok
       THEN Outcome(<<Header(path), Content(path, read_file_content(attr).text, attr)>>,
                    {}, TRUE)
       ELSE Outcome(<<>>, {Notice("error", path)}, TRUE)
  ELSE SkipBinary(path, quiet)

\* FileCombiner.combine_files, lines 162-170: the block is written when the
\* content is truthy.
WantedLib(name, attr) ==
  SuffixLower(name) = <<".", "s", "w", "i", "f", "t">> \/ ~is_binary(name, attr)

Truthy(content) == content.ok /\ content.text # <<>>

AcceptLib(path, attr, quiet) ==
  IF WantedLib(path[Len(path)], attr)
  THEN IF Truthy(read_file_content(attr))
       THEN Outcome(<<Header(path), Content(path, read_file_content(attr).text, attr)>>,
                    {}, TRUE)
       ELSE Outcome(<<>>,
                    IF read_file_content(attr).ok THEN {} ELSE {Notice("error", path)},
                    TRUE)
  ELSE SkipBinary(path, quiet)

\* src/src/combine_files.py, lines 98-110: the header is written once the file
\* is open, the content once it is read and decoded.
AcceptSrc(path, attr, quiet) ==
  IF is_binary_src(path, attr) THEN SkipBinary(path, quiet)
  ELSE IF attr.st = "noperm" THEN Outcome(<<>>, {Notice("error", path)}, TRUE)
  ELSE IF Decode("utf-8", attr.data).ok
  THEN Outcome(<<Header(path), Content(path, Decode("utf-8", attr.data).text, attr)>>,
               {}, TRUE)
  ELSE Outcome(<<Header(path)>>, {Notice("error", path)}, TRUE)

Accept(v, path, attr, quiet) ==
  CASE v = "root" -> AcceptRoot(path, attr, quiet)
    [] v = "lib" -> AcceptLib(path, attr, quiet)
    [] OTHER -> AcceptSrc(path, attr, quiet)

\* ----------------------------------------------------------------- the tree
\* e.is_file() of a directory entry: a directory and a dangling link are not.
IsFileEntry(d, name) ==
  name \in FileNames(d) /\ FileAt(<<d, name>>).st # "dangling"

\* A sort key of (e.is_file(), e.name): what is not a regular file comes first.
EntriesDirsFirst(d) ==
  Sorted(SubdirNames(d) \cup { n \in FileNames(d) : ~IsFileEntry(d, n) })
    \o Sorted({ n \in FileNames(d) : IsFileEntry(d, n) })

\* sorted(os.scandir(path), key=lambda e: (not e.is_file(), e.name))
SortedEntries(d) ==
  Sorted({ n \in FileNames(d) : IsFileEntry(d, n) })
    \o Sorted(SubdirNames(d) \cup { n \in FileNames(d) : ~IsFileEntry(d, n) })

\* [e for e in entries if not e.name.startswith('.')]
NotHidden(names) == SelectSeq(names, LAMBDA n : ~StartsWith(n, <<".">>))

TreeEntries(d) == NotHidden(SortedEntries(d))

\* add_to_tree(path, prefix): one line per entry, a directory followed by the
\* lines of what it holds.  "L-- " stands for the last entry's branch glyph,
\* "T-- " for the others', "|   " and "    " for the continuation.
RECURSIVE add_to_tree(_, _)
add_to_tree(d, prefix) ==
  LET entries == TreeEntries(d)
      RECURSIVE Lines(_)
      Lines(i) ==
        IF i > Len(entries) THEN <<>>
        ELSE LET is_last == (i = Len(entries))
                 line == Item("tree", d \o <<entries[i]>>, <<>>,
                              prefix \o <<IF is_last THEN "L-- " ELSE "T-- ">>, 0)
                 below == IF entries[i] \in SubdirNames(d)
                          THEN add_to_tree(d \o <<entries[i]>>,
                                           prefix \o <<IF is_last THEN "    " ELSE "|   ">>)
                          ELSE <<>>
             IN  <<line>> \o below \o Lines(i + 1)
  IN  Lines(1)

\* get_file_tree(directory): the time-stamped header, then the lines.
\* src/combine_files.py calls it without defining it; it is taken to be the
\* function the two other files define (they define the same one).
get_file_tree(now) ==
  <<Item("treehdr", <<>>, <<now>>, <<>>, 0)>> \o add_to_tree(<<>>, <<>>)

Marker == Item("marker", <<>>, <<>>, <<>>, 0)

\* ------------------------------------------------------- the exclusion set
\* FileCombiner.load_exclude_patterns(config_path)
load_exclude_patterns(has_config, lines) ==
  IF has_config
  THEN { Strip(l) : l \in { x \in Range(lines) :
                              Strip(x) # <<>> /\ ~StartsWith(x, <<"#">>) } }
  ELSE {}

\* combine_files of src/combine_files.py, lines 42-43.
PatternsRoot(a) ==
  IF a.has_exclude THEN Range(a.exclude) ELSE Range(RootDefaultPatterns)

\* main of src/lib/combine_files.py, lines 205-208.
PatternsLib(a) ==
  load_exclude_patterns(a.has_config, a.config)
    \cup (IF a.has_exclude THEN Range(a.exclude) ELSE {})

\* main of src/src/combine_files.py, lines 149-156.
PatternsSrc(a) ==
  Range(SrcDefaultPatterns) \cup (IF a.has_exclude THEN Range(a.exclude) ELSE {})

\* The pre-scan: the files of every directory (none is pruned) whose name holds
\* no pattern.
CountFilesOf(patterns) ==
  Cardinality({ s \in AllSlots : ~Excluded(s[2], patterns) })

\* A walk that filters a copy of dirs and so descends everywhere.
PrunedDirsKeepAll(d, patterns) == ScanOrder(SubdirNames(d))

\* dirs[:] = [d for d in dirs if not any(pattern in d for pattern in exclude_patterns)]
PrunedDirs(d, patterns) ==
  SelectSeq(ScanOrder(SubdirNames(d)), LAMBDA n : ~Excluded(n, patterns))

\* files as os.walk hands them over, not sorted.
UnsortedFiles(d) == ScanOrder(FileNames(d))

\* sorted(files)
SortedFiles(d) == Sorted(FileNames(d))

\* -------------------------------------------------------------------- runs
Variants == {"root", "lib", "src"}

MaxSizeMbs == {1}

\* The calls: --config exists in src/lib/combine_files.py only.
Calls(v) ==
  { [has_exclude |-> he, exclude |-> IF he THEN CustomExclude ELSE <<>>,
     has_config |-> hc, config |-> IF hc THEN ConfigLines ELSE <<>>,
     max_size_mb |-> mb, no_tree |-> nt, quiet |-> q] :
    he \in BOOLEAN, hc \in (IF v = "lib" THEN BOOLEAN ELSE {FALSE}),
    mb \in MaxSizeMbs, nt \in BOOLEAN, q \in BOOLEAN }

\* The listing orders: one name alone is listed the same way in both.
ScanOrders(f) == IF Cardinality(DOMAIN f) >= 2 THEN BOOLEAN ELSE {FALSE}

InitRun ==
  /\ pc = "main"
  /\ exclude_patterns = {}
  /\ total_files = 0
  /\ processed_files = 0
  /\ pending = <<>>
  /\ cur = <<>>
  /\ todo = <<>>
  /\ outfile = <<>>
  /\ notices = {}
  /\ visited = {}
  /\ classified = {}
  /\ opened = {}
  /\ result = "running"
  /\ failure = ""

\* One run, the output file outside the input directory.
Init ==
  /\ variant \in Variants
  /\ argv \in Calls(variant)
  /\ fs \in FileSystems
  /\ scanRev \in ScanOrders(fs)
  /\ outIn = FALSE
  /\ outExists = FALSE
  /\ outWritable \in BOOLEAN
  /\ disk = <<>>
  /\ run = 1
  /\ prevDoc = <<>>
  /\ InitRun

\* ----------------------------------------------------------------- actions
\* The exclusion set is fixed before the walk: main (lib, src) or the head of
\* combine_files (root).
Main ==
  /\ pc = "main"
  /\ exclude_patterns' = CASE variant = "root" -> PatternsRoot(argv)
                           [] variant = "lib" -> PatternsLib(argv)
                           [] OTHER -> PatternsSrc(argv)
  /\ pc' = "count"
  /\ UNCHANGED << env, outExists, disk, run, prevDoc, total_files, processed_files,
                  pending, cur, todo, outfile, notices, visited, classified, opened,
                  result, failure >>

\* total_files = sum(1 for _, _, files in os.walk(input_dir) for f in files if ...)
CountFiles ==
  /\ pc = "count"
  /\ total_files' = CountFilesOf(exclude_patterns)
  /\ processed_files' = 0
  /\ pc' = "open"
  /\ UNCHANGED << env, outExists, disk, run, prevDoc, exclude_patterns,
                  pending, cur, todo, outfile, notices, visited, classified, opened,
                  result, failure >>

\* How a run that cannot go on ends: FileCombiner.combine_files catches the
\* exception and returns False, the two functions let it propagate.  The with
\* statement closes the output file on the way out.
Ended(cause) ==
  /\ pc' = "exit"
  /\ failure' = cause
  /\ result' = IF variant = "lib" THEN "False" ELSE "raised"

\* with open(output_file, 'w', encoding='utf-8') as outfile: creates or empties
\* the file.
OpenOutput ==
  /\ pc = "open"
  /\ IF outWritable
     THEN /\ outExists' = TRUE
          /\ disk' = <<>>
          /\ pc' = "tree"
          /\ UNCHANGED << result, failure >>
     ELSE /\ Ended("output")
          /\ UNCHANGED << outExists, disk >>
  /\ UNCHANGED << env, run, prevDoc, exclude_patterns, total_files, processed_files,
                  pending, cur, todo, outfile, notices, visited, classified, opened >>

\* What the run writes before the walk.
Preamble(no_tree, now) ==
  IF no_tree THEN <<>> ELSE get_file_tree(now) \o <<Marker>>

\* if not no_tree: the tree and the marker; then os.walk(input_dir) starts.
WriteTree ==
  /\ pc = "tree"
  /\ outfile' = Preamble(argv.no_tree, run)
  /\ pending' = << <<>> >>
  /\ pc' = "walk"
  /\ UNCHANGED << env, outExists, disk, run, prevDoc, exclude_patterns, total_files,
                  processed_files, cur, todo, notices, visited, classified, opened,
                  result, failure >>

\* What os.walk goes on with after d: the kept sub-directories of d, then the rest.
Descend(d, kept, rest) == [i \in 1..Len(kept) |-> d \o <<kept[i]>>] \o rest

\* os.walk yields the next directory: its sub-directories are pruned and its
\* files sorted.
WalkDir ==
  /\ pc = "walk" /\ todo = <<>> /\ pending # <<>>
  /\ cur' = Head(pending)
  /\ visited' = visited \cup {Head(pending)}
  /\ todo' = SortedFiles(Head(pending))
  /\ pending' = Descend(Head(pending), PrunedDirs(Head(pending), exclude_patterns),
                        Tail(pending))
  /\ UNCHANGED << env, outExists, disk, run, prevDoc, pc, exclude_patterns, total_files,
                  processed_files, outfile, notices, classified, opened,
                  result, failure >>

\* The body of  for file in sorted(files)  for one file.
ProcessFile ==
  /\ pc = "walk" /\ todo # <<>>
  /\ LET file == Head(todo)
         path == cur \o <<file>>
         attr == FileAt(<<cur, file>>)
         got  == Accept(variant, path, attr, argv.quiet)
     IN  IF Excluded(file, exclude_patterns)
         THEN /\ todo' = Tail(todo)
              /\ UNCHANGED << pc, processed_files, outfile, notices, classified, opened,
                              result, failure, disk >>
         ELSE /\ processed_files' = processed_files + 1
              /\ IF ~argv.quiet /\ total_files = 0
                 THEN /\ Ended("zerodiv")
                      /\ disk' = outfile
                      /\ UNCHANGED << todo, outfile, notices, classified, opened >>
                 ELSE IF attr.st = "dangling"
                 THEN /\ Ended("getsize")
                      /\ disk' = outfile
                      /\ UNCHANGED << todo, outfile, notices, classified, opened >>
                 ELSE IF TooLarge(attr.size, MaxSize(argv.max_size_mb))
                 THEN /\ todo' = Tail(todo)
                      /\ notices' = notices \cup
                           (IF argv.quiet THEN {} ELSE {Notice("skip_large", path)})
                      /\ UNCHANGED << pc, outfile, classified, opened, result, failure,
                                      disk >>
                 ELSE /\ todo' = Tail(todo)
                      /\ classified' = classified \cup {path}
                      /\ opened' = opened \cup (IF got.opens THEN {path} ELSE {})
                      /\ outfile' = outfile \o got.items
                      /\ notices' = notices \cup got.notes
                      /\ UNCHANGED << pc, result, failure, disk >>
  /\ UNCHANGED << env, outExists, run, prevDoc, exclude_patterns, total_files,
                  pending, cur, visited >>

\* The walk is over: the file is closed; FileCombiner.combine_files returns True.
Finish ==
  /\ pc = "walk" /\ todo = <<>> /\ pending = <<>>
  /\ pc' = "exit"
  /\ result' = IF variant = "lib" THEN "True" ELSE "None"
  /\ disk' = outfile
  /\ UNCHANGED << env, outExists, run, prevDoc, exclude_patterns, total_files,
                  processed_files, pending, cur, todo, outfile, notices, visited,
                  classified, opened, failure >>

Next == Main \/ CountFiles \/ OpenOutput \/ WriteTree \/ WalkDir \/ ProcessFile \/ Finish

Spec == Init /\ [][Next]_vars

\* Two runs in a row with the same arguments on the same tree; the output file
\* may lie in the input directory.
Runs == 2

Init2 ==
  /\ variant \in Variants
  /\ argv \in Calls(variant)
  /\ fs \in FileSystems
  /\ scanRev \in ScanOrders(fs)
  /\ outIn \in BOOLEAN
  /\ outExists = FALSE
  /\ outWritable = TRUE
  /\ disk = <<>>
  /\ run = 1
  /\ prevDoc = <<>>
  /\ InitRun

\* The tool is started again.
NextRun ==
  /\ pc = "exit" /\ run < Runs
  /\ run' = run + 1
  /\ prevDoc' = disk
  /\ pc' = "main"
  /\ exclude_patterns' = {}
  /\ total_files' = 0
  /\ processed_files' = 0
  /\ pending' = <<>>
  /\ cur' = <<>>
  /\ todo' = <<>>
  /\ outfile' = <<>>
  /\ notices' = {}
  /\ visited' = {}
  /\ classified' = {}
  /\ opened' = {}
  /\ result' = "running"
  /\ failure' = ""
  /\ UNCHANGED << env, outExists, disk >>

Next2 == Next \/ NextRun

SpecTwice == Init2 /\ [][Next2]_vars

\* ------------------------------------------------------------------ claims
\* The path of a file, below the input directory.
PathOf(s) == s[1] \o <<s[2]>>

\* The size limit of the run, in bytes.
Limit == argv.max_size_mb * MiB

Returned == result \in {"None", "True"}

\* The output holds a '### File:' line, or a content, for the path.
HasHeader(path) ==
  \E i \in 1..Len(outfile) : outfile[i].t = "header" /\ outfile[i].path = path

HasContent(path) ==
  \E i \in 1..Len(outfile) : outfile[i].t = "content" /\ outfile[i].path = path

\* The paths of the '### File:' lines, in the order they were written.
HeaderPaths ==
  LET H == SelectSeq(outfile, LAMBDA x : x.t = "header")
  IN  [i \in 1..Len(H) |-> H[i].path]

\* The file's name, or the name of a directory above it, holds a pattern.
DirExcluded(s) ==
  \E p \in exclude_patterns : \E k \in 1..Len(s[1]) : Contains(p, s[1][k])

NameExcluded(s) == \E p \in exclude_patterns : Contains(p, s[2])

PatternExcluded(s) == DirExcluded(s) \/ NameExcluded(s)

\* C1: for every pattern of the run's exclusion set, no '### File:' block (header
\* or content) is written for a path one of whose names (the file's, or a
\* directory's below the input directory) contains the pattern, and the walk
\* neither yields nor queues a directory with such a name.
C1_ExcludedAbsent ==
  \A p \in exclude_patterns :
    /\ \A i \in 1..Len(outfile) :
         outfile[i].t \in {"header", "content"} =>
           \A k \in 1..Len(outfile[i].path) : ~Contains(p, outfile[i].path[k])
    /\ \A d \in visited \cup Range(pending) \cup {cur} :
         \A k \in 1..Len(d) : ~Contains(p, d[k])

\* C1's case: a finished run over a tree with a file below an excluded directory
\* and a file excluded by its own name, which wrote a block for neither.
C1_Witness ==
  /\ Returned
  /\ \E s \in DOMAIN fs : DirExcluded(s)
  /\ \E s \in DOMAIN fs : NameExcluded(s) /\ ~DirExcluded(s) /\ s[1] \in visited

\* C2: in src/combine_files.py, every readable file that is not pattern-excluded,
\* not over the size limit and whose extension is in is_binary's code_extensions
\* has a block once the run has returned.
C2_AllowListedIncluded ==
  (variant = "root" /\ Returned) =>
    \A s \in DOMAIN fs :
      ( /\ ~PatternExcluded(s)
        /\ fs[s].st = "ok"
        /\ fs[s].size <= Limit
        /\ SuffixLower(s[2]) \in code_extensions ) => HasHeader(PathOf(s))

\* C3: a file larger than max_size_mb * 1024 * 1024 bytes gets no block and is
\* never classified (extension or first bytes) nor opened; a file of exactly
\* that size is not skipped as too large and is classified when the walk
\* reaches it.
C3_OversizedSkipped ==
  \A s \in DOMAIN fs :
    /\ (fs[s].st # "dangling" /\ fs[s].size > Limit) =>
         /\ ~HasHeader(PathOf(s)) /\ ~HasContent(PathOf(s))
         /\ PathOf(s) \notin classified
         /\ PathOf(s) \notin opened
    /\ (fs[s].st # "dangling" /\ fs[s].size = Limit) =>
         /\ Notice("skip_large", PathOf(s)) \notin notices
         /\ (Returned /\ ~PatternExcluded(s)) => PathOf(s) \in classified

\* C3's case: a finished run that met an oversized .swift file (and said so) and
\* wrote the block of a file of exactly the limit.
C3_Witness ==
  /\ Returned
  /\ \E s \in DOMAIN fs :
       /\ fs[s].size > Limit
       /\ SuffixLower(s[2]) = <<".", "s", "w", "i", "f", "t">>
       /\ Notice("skip_large", PathOf(s)) \in notices
  /\ \E s \in DOMAIN fs : fs[s].size = Limit /\ HasHeader(PathOf(s))

\* The files FileProcessor.is_binary does not call binary, among those neither
\* pattern-excluded nor oversized.
C4_Eligible ==
  { s \in DOMAIN fs : /\ ~PatternExcluded(s)
                      /\ fs[s].size <= Limit
                      /\ ~is_binary(s[2], fs[s]) }

\* C4: after FileCombiner.combine_files returned True, the number of blocks is
\* the number of eligible files minus those whose read failed.
C4_BlockCount ==
  (variant = "lib" /\ result = "True") =>
    Len(HeaderPaths) =
      Cardinality(C4_Eligible) - Cardinality({ s \in C4_Eligible : fs[s].st = "noperm" })

\* The directory of a path and its last name.
DirOf(path) == SubSeq(path, 1, Len(path) - 1)

NameOf(path) == path[Len(path)]

IsPrefix(a, b) == Len(a) <= Len(b) /\ SubSeq(b, 1, Len(a)) = a

IndexOf(q, x) == CHOOSE i \in 1..Len(q) : q[i] = x

\* Walk order of two files: in one directory by name; a directory's own files
\* before those of the directories below it; otherwise the branch listed first.
Precedes(p, q) ==
  IF DirOf(p) = DirOf(q) THEN StrLess(NameOf(p), NameOf(q))
  ELSE IF IsPrefix(DirOf(p), DirOf(q)) THEN TRUE
  ELSE IF IsPrefix(DirOf(q), DirOf(p)) THEN FALSE
  ELSE LET k == CHOOSE i \in 1..Len(p) :
                  p[i] # q[i] /\ \A j \in 1..(i - 1) : p[j] = q[j]
           listed == ScanOrder(SubdirNames(SubSeq(p, 1, k - 1)))
       IN  IndexOf(listed, p[k]) < IndexOf(listed, q[k])

\* The files the run accepts: reached by the walk, not oversized, and taken by
\* the variant's own test of extension, first bytes and readability (the test
\* of lines 88, 164-165 and 99-105 of the three files, whatever it lets through).
C5_Accepted ==
  { PathOf(s) : s \in { x \in DOMAIN fs :
      /\ ~PatternExcluded(x)
      /\ fs[x].st # "dangling"
      /\ fs[x].size <= Limit
      /\ Accept(variant, PathOf(x), fs[x], argv.quiet).items # <<>> } }

\* C5: the output is the tree and the marker (when the tree is enabled) and
\* then only blocks; the blocks are those of accepted files, each once, in walk
\* order (a directory's files ascending by name, before the files of the
\* directories below it, branch after branch), and every content follows its
\* own header; once the run has returned every accepted file has its block.
C5_DocumentOrder ==
  (pc \in {"walk", "exit"} /\ failure # "output") =>
    /\ IF argv.no_tree
       THEN \A i \in 1..Len(outfile) : outfile[i].t \in {"header", "content"}
       ELSE /\ Len(outfile) >= 2
            /\ outfile[1].t = "treehdr"
            /\ \E m \in 2..Len(outfile) :
                 /\ outfile[m].t = "marker"
                 /\ \A i \in 2..(m - 1) : outfile[i].t = "tree"
                 /\ \A i \in (m + 1)..Len(outfile) : outfile[i].t \in {"header", "content"}
    /\ \A i, j \in 1..Len(HeaderPaths) :
         i < j => HeaderPaths[i] # HeaderPaths[j] /\ Precedes(HeaderPaths[i], HeaderPaths[j])
    /\ \A i \in 1..Len(outfile) :
         outfile[i].t = "content" =>
           i > 1 /\ outfile[i - 1].t = "header" /\ outfile[i - 1].path = outfile[i].path
    /\ Range(HeaderPaths) \subseteq C5_Accepted
    /\ Returned => Range(HeaderPaths) = C5_Accepted

\* C5's case: a run with the tree that returned after writing two blocks for
\* files of one directory and one for a file further down.
C5_Witness ==
  /\ Returned /\ ~argv.no_tree
  /\ \E i, j \in 1..Len(HeaderPaths) :
       i < j /\ DirOf(HeaderPaths[i]) = DirOf(HeaderPaths[j])

\* A second case of C5: blocks of files in two directories side by side.
C5_WitnessBranches ==
  /\ Returned
  /\ \E i, j \in 1..Len(HeaderPaths) :
       /\ i < j
       /\ ~IsPrefix(DirOf(HeaderPaths[i]), DirOf(HeaderPaths[j]))
       /\ ~IsPrefix(DirOf(HeaderPaths[j]), DirOf(HeaderPaths[i]))

\* Opening, reading or decoding the file as src/src/combine_files.py does fails.
C6_ReadFails(attr) == attr.st = "noperm" \/ ~Decode("utf-8", attr.data).ok

\* C6: in src/src/combine_files.py a file whose open, read or decode fails is
\* reported (also when quiet) and leaves neither a header nor content.
C6_FailedReadLeavesNothing ==
  variant = "src" =>
    \A s \in DOMAIN fs :
      C6_ReadFails(fs[s]) =>
        /\ PathOf(s) \in opened => Notice("error", PathOf(s)) \in notices
        /\ ~HasHeader(PathOf(s))
        /\ ~HasContent(PathOf(s))

\* C7: FileCombiner.combine_files returns False only when the output file
\* cannot be opened, and a run that got past that processes the whole walk.
C7_FalseOnlyForSetup ==
  variant = "lib" =>
    /\ result = "False" => failure = "output"
    /\ (pc = "exit" /\ failure # "output") => (todo = <<>> /\ pending = <<>>)

\* C8: with the CLI of src/lib/combine_files.py the walk never yields a
\* directory named .git, whatever --exclude and --config are.
C8_GitNeverWalked ==
  variant = "lib" => \A d \in visited : \A k \in 1..Len(d) : d[k] # DotGit

\* A document without the time stamp of its tree.
Unstamped(doc) ==
  [i \in 1..Len(doc) |-> IF doc[i].t = "treehdr" THEN [doc[i] EXCEPT !.text = <<>>]
                         ELSE doc[i]]

\* C9: the second of two runs in a row leaves the output the first one left, the
\* time stamp aside.
C9_SecondRunSame ==
  (run = 2 /\ pc = "exit") => Unstamped(disk) = Unstamped(prevDoc)

\* The tree lines of the entries of directory d, in the order written.
TreeLinesOf(d) ==
  SelectSeq(outfile, LAMBDA x : x.t = "tree" /\ DirOf(x.path) = d)

\* The directories the tree lists the entries of: no name on the way is hidden.
ListedDirs ==
  { d \in DirPaths : \A k \in 1..Len(d) : ~StartsWith(d[k], <<".">>) }

\* C10 as stated: in every directory the tree lists all sub-directories before
\* all files.
C10_DirsBeforeFiles ==
  variant \in {"lib", "src"} =>
  \A d \in ListedDirs :
    \A i, j \in 1..Len(TreeLinesOf(d)) :
      ( /\ i < j
        /\ NameOf(TreeLinesOf(d)[i].path) \in FileNames(d)
        /\ NameOf(TreeLinesOf(d)[j].path) \in SubdirNames(d) ) => FALSE

\* C10 amended: once the tree is written it lists, for every directory it
\* reaches, exactly the entries whose name does not start with ".", the
\* regular files (is_file()) before everything else (directories, dangling
\* links), and each of the two groups ascending by name.
C10_FilesBeforeDirs ==
  ( /\ variant \in {"lib", "src"}
    /\ pc \in {"walk", "exit"} /\ failure # "output" /\ ~argv.no_tree ) =>
    \A d \in ListedDirs :
      LET L == TreeLinesOf(d)
          names == [i \in 1..Len(L) |-> NameOf(L[i].path)]
      IN  /\ Range(names) =
               { n \in FileNames(d) \cup SubdirNames(d) : ~StartsWith(n, <<".">>) }
          /\ \A i, j \in 1..Len(names) :
               i < j =>
                 /\ ~(~IsFileEntry(d, names[i]) /\ IsFileEntry(d, names[j]))
                 /\ (IsFileEntry(d, names[i]) <=> IsFileEntry(d, names[j]))
                      => StrLess(names[i], names[j])

\* C10's case: a written tree with a directory whose listing holds a regular
\* file and a sub-directory, neither hidden.
C10_Witness ==
  /\ variant \in {"lib", "src"}
  /\ pc = "walk" /\ ~argv.no_tree
  /\ \E d \in ListedDirs :
       /\ \E i \in 1..Len(TreeLinesOf(d)) : IsFileEntry(d, NameOf(TreeLinesOf(d)[i].path))
       /\ \E i \in 1..Len(TreeLinesOf(d)) : NameOf(TreeLinesOf(d)[i].path) \in SubdirNames(d)

\* C11: the pre-scan total never blocks processing: whatever total_files is
\* against the number of files the walk meets (0 included, quiet unset), no run
\* ends on the progress computation, and a run that met a file and whose size
\* queries all succeeded ends with the walk exhausted, returning None or True.
C11_TotalNeverBlocks ==
  /\ failure # "zerodiv"
  /\ (pc = "exit" /\ processed_files >= 1 /\ failure # "getsize") =>
       (Returned /\ todo = <<>> /\ pending = <<>>)

\* C12: when the output file lies in the input directory it is never walked as
\* an input: the output holds no '### File:' block (header or content) for it,
\* it is never opened for reading while it is written, and processed_files
\* never exceeds total_files.
C12_OutputNotWalked ==
  outIn =>
    /\ ~HasHeader(PathOf(OutSlot))
    /\ ~HasContent(PathOf(OutSlot))
    /\ PathOf(OutSlot) \notin opened
    /\ processed_files <= total_files

====
